---- MODULE Spec2Model ----
(***************************************************************************)
(* A model of mcp_server.py, the Oqee MCP server: the process-wide         *)
(* service-plan cache, the Levenshtein channel resolver (play_channel),    *)
(* the search-result normaliser (search_content), the time-spec parser     *)
(* (get_epg) and the guide aggregation (_get_epg_by_datetime).             *)
(*                                                                         *)
(* Conventions.  A Python str is a sequence of one-character strings.      *)
(* A value that may be None is None or Some(v).  A dict that is iterated   *)
(* is a sequence of [key, data] entries in insertion order.  The local     *)
(* time zone is UTC and the current year is 1970, so that a Unix timestamp *)
(* is a number of seconds since the start of the model's year.             *)
(***************************************************************************)
EXTENDS Integers, Sequences, FiniteSets, TLC

VARIABLES
    remote,     \* what GET /api/v5/service_plan answers during this process
    epg,        \* what GET /api/v1/epg/all/<bucket> answers
    clock,      \* datetime.datetime.now()
    cache,      \* _SERVICE_PLAN_CACHE
    fetches,    \* number of GETs of the service plan made so far
    pc,         \* "import" while the module is being imported, then "ready"
    requests,   \* the calls the client makes in this run, in any order and number
    op,         \* the last function called
    inp,        \* its arguments
    ret,        \* what it returned or raised
    at,         \* the datetime the last call passed to _get_epg_by_datetime, if any
    epgReq      \* the guide buckets the last call requested

vars == <<remote, epg, clock, cache, fetches, pc, requests, op, inp, ret, at, epgReq>>

----------------------------------------------------------------------------
(* Values *)

None == [none |-> TRUE]
Some(v) == [none |-> FALSE, val |-> v]

Min2(a, b) == IF a <= b THEN a ELSE b
Min3(a, b, c) == Min2(a, Min2(b, c))

\* All sequences over S of length at most n.
SeqsUpTo(S, n) == UNION {[1..k -> S] : k \in 0..n}

\* str.lower(), on the characters the model uses.
LowerChar(c) ==
    CASE c = "A" -> "a"
      [] c = "B" -> "b"
      [] c = "T" -> "t"
      [] c = "F" -> "f"
      [] OTHER -> c

Lower(s) == [i \in 1..Len(s) |-> LowerChar(s[i])]

----------------------------------------------------------------------------
(* levenshtein_distance *)

\* Bound on the length of the strings the distance is exercised on.
MaxLen == 3

LevAlphabet == {"a", "b", "c"}

\* Line 75: (c1 != c2) added as an integer.
SubstCostAlways(c1, c2) == 1

SubstCost(c1, c2) == IF c1 # c2 THEN 1 ELSE 0

\* The inner loop, lines 72-76: fills current_row from column j on.
RECURSIVE InnerLoop(_, _, _, _, _)
InnerLoop(previous_row, current_row, c1, s2, j) ==
    IF j >= Len(s2) THEN current_row
    ELSE LET insertions == previous_row[j + 2] + 1
             deletions == current_row[j + 1] + 1
             substitutions == previous_row[j + 1] + SubstCost(c1, s2[j + 1])
         IN InnerLoop(previous_row,
                      Append(current_row, Min3(insertions, deletions, substitutions)),
                      c1, s2, j + 1)

\* One row of the table, line 71-76, for the character s1[i + 1].
CurrentRow(previous_row, c1, s2, i) ==
    InnerLoop(previous_row, <<i + 1>>, c1, s2, 0)

\* The outer loop, lines 70-77.
RECURSIVE OuterLoop(_, _, _, _)
OuterLoop(previous_row, s1, s2, i) ==
    IF i >= Len(s1) THEN previous_row
    ELSE OuterLoop(CurrentRow(previous_row, s1[i + 1], s2, i), s1, s2, i + 1)

\* Lines 66-79, reached with len(s1) >= len(s2).
LevenshteinRows(s1, s2) ==
    IF Len(s2) = 0 THEN Len(s1)
    ELSE LET previous_row == [k \in 1..(Len(s2) + 1) |-> k - 1]
             last == OuterLoop(previous_row, s1, s2, 0)
         IN last[Len(last)]

levenshtein_distance(s1, s2) ==
    IF Len(s1) < Len(s2) THEN LevenshteinRows(s2, s1) ELSE LevenshteinRows(s1, s2)

----------------------------------------------------------------------------
(* The calendar: datetime in the year 1970, time zone UTC *)

DaysInMonth == <<31, 28, 31, 30, 31, 30, 31, 31, 30, 31, 30, 31>>

RECURSIVE DaysBefore(_)
DaysBefore(month) == IF month = 1 THEN 0 ELSE DaysBefore(month - 1) + DaysInMonth[month - 1]

DateTime(mo, d, h, mi, s, us) ==
    [month |-> mo, day |-> d, hour |-> h, minute |-> mi, second |-> s, microsecond |-> us]

\* int(datetime.timestamp()): whole seconds since the epoch.
TimestampSeconds(dt) ==
    (DaysBefore(dt.month) + dt.day - 1) * 86400 + dt.hour * 3600 + dt.minute * 60 + dt.second

\* n >= datetime.timestamp() for an integer n: the float keeps the sub-second part.
AtOrAfter(n, dt) ==
    IF dt.microsecond = 0 THEN n >= TimestampSeconds(dt) ELSE n > TimestampSeconds(dt)

\* datetime.datetime.fromtimestamp(t) for an integer t within the year.
FromTimestamp(t) ==
    LET dayOfYear == t \div 86400
        mo == CHOOSE m \in 1..12 :
                  DaysBefore(m) <= dayOfYear /\ dayOfYear < DaysBefore(m) + DaysInMonth[m]
        rest == t % 86400
    IN DateTime(mo, dayOfYear - DaysBefore(mo) + 1,
                rest \div 3600, (rest % 3600) \div 60, rest % 60, 0)

DigitChars == <<"0", "1", "2", "3", "4", "5", "6", "7", "8", "9">>

\* "%02d"
TwoDigits(n) == <<DigitChars[(n \div 10) + 1], DigitChars[(n % 10) + 1]>>

\* strftime("%H:%M")
StrfHM(dt) == TwoDigits(dt.hour) \o <<":">> \o TwoDigits(dt.minute)

\* strftime("%m/%d %H:%M")
StrfMDHM(dt) == TwoDigits(dt.month) \o <<"/">> \o TwoDigits(dt.day) \o <<" ">> \o StrfHM(dt)

\* The field checks of datetime.replace (ValueError when one fails).
ValidTime(h, mi) == h \in 0..23 /\ mi \in 0..59
ValidDate(mo, d) == mo \in 1..12 /\ d >= 1 /\ d <= DaysInMonth[mo]

----------------------------------------------------------------------------
(* str.split and int(), as get_epg uses them *)

\* The index of the first sep in s at or after position i, 0 when there is none.
RECURSIVE FindFrom(_, _, _)
FindFrom(s, sep, i) ==
    IF i > Len(s) THEN 0
    ELSE IF s[i] = sep THEN i
    ELSE FindFrom(s, sep, i + 1)

\* s.split(sep) for a one-character sep: the list of the parts, empty ones included.
RECURSIVE Split(_, _)
Split(s, sep) ==
    LET k == FindFrom(s, sep, 1)
    IN IF k = 0 THEN <<s>>
       ELSE <<SubSeq(s, 1, k - 1)>> \o Split(SubSeq(s, k + 1, Len(s)), sep)

\* str.strip(), for the one whitespace character of the model.
RECURSIVE Strip(_)
Strip(s) ==
    IF s = <<>> THEN s
    ELSE IF Head(s) = " " THEN Strip(Tail(s))
    ELSE IF s[Len(s)] = " " THEN Strip(SubSeq(s, 1, Len(s) - 1))
    ELSE s

IsDigit(c) == \E d \in 1..10 : DigitChars[d] = c
DigitValue(c) == (CHOOSE d \in 1..10 : DigitChars[d] = c) - 1

RECURSIVE DigitsValue(_, _)
DigitsValue(s, acc) ==
    IF s = <<>> THEN acc ELSE DigitsValue(Tail(s), acc * 10 + DigitValue(Head(s)))

\* int(s): surrounding whitespace, an optional sign, then at least one digit.
\* [ok |-> FALSE] stands for the ValueError.
ParseInt(s) ==
    LET t == Strip(s)
        signed == t # <<>> /\ Head(t) \in {"+", "-"}
        digits == IF signed THEN Tail(t) ELSE t
    IN IF digits = <<>> \/ \E i \in 1..Len(digits) : ~IsDigit(digits[i])
       THEN [ok |-> FALSE, val |-> 0]
       ELSE [ok |-> TRUE,
             val |-> IF signed /\ Head(t) = "-" THEN 0 - DigitsValue(digits, 0)
                     ELSE DigitsValue(digits, 0)]

\* a, b = map(int, s.split(sep)): fails unless there are exactly two parts, both integers.
ParsePair(s, sep) ==
    LET parts == Split(s, sep)
    IN IF Len(parts) # 2 THEN [ok |-> FALSE, a |-> 0, b |-> 0]
       ELSE LET x == ParseInt(parts[1])
                y == ParseInt(parts[2])
            IN IF x.ok /\ y.ok THEN [ok |-> TRUE, a |-> x.val, b |-> y.val]
               ELSE [ok |-> FALSE, a |-> 0, b |-> 0]

NoDateTime == DateTime(0, 0, 0, 0, 0, 0)

\* The HH:MM attempt without the range checks of datetime.replace.
ParseHHMMNoRange(s, now) ==
    LET p == ParsePair(s, ":")
    IN IF p.ok
       THEN [ok |-> TRUE, dt |-> DateTime(now.month, now.day, p.a, p.b, 0, 0)]
       ELSE [ok |-> FALSE, dt |-> NoDateTime]

\* Lines 255-256: the HH:MM attempt; ok is FALSE when it raises ValueError.
ParseHHMM(s, now) ==
    LET p == ParsePair(s, ":")
    IN IF p.ok /\ ValidTime(p.a, p.b)
       THEN [ok |-> TRUE, dt |-> DateTime(now.month, now.day, p.a, p.b, 0, 0)]
       ELSE [ok |-> FALSE, dt |-> NoDateTime]

\* Lines 260-263: the MM/DD HH:MM attempt.
ParseMMDDHHMM(s, now) ==
    LET halves == Split(s, " ")
    IN IF Len(halves) # 2 THEN [ok |-> FALSE, dt |-> NoDateTime]
       ELSE LET md == ParsePair(halves[1], "/")
                hm == ParsePair(halves[2], ":")
            IN IF md.ok /\ hm.ok /\ ValidDate(md.a, md.b) /\ ValidTime(hm.a, hm.b)
               THEN [ok |-> TRUE, dt |-> DateTime(md.a, md.b, hm.a, hm.b, 0, 0)]
               ELSE [ok |-> FALSE, dt |-> NoDateTime]

\* Lines 248-267: the instant get_epg passes on, or the error it raises.
\* time_input is [kind |-> "none" | "int" | "str" | "other", int, str].
ParseTimeInput(time_input, now) ==
    CASE time_input.kind = "none" -> [err |-> "", dt |-> now]
      [] time_input.kind = "int" -> [err |-> "", dt |-> FromTimestamp(time_input.int)]
      [] time_input.kind = "str" ->
            LET first == ParseHHMM(time_input.str, now)
                second == ParseMMDDHHMM(time_input.str, now)
            IN IF first.ok THEN [err |-> "", dt |-> first.dt]
               ELSE IF second.ok THEN [err |-> "", dt |-> second.dt]
               ELSE [err |-> "InvalidTimeFormat", dt |-> NoDateTime]
      [] OTHER -> [err |-> "InvalidTimeInput", dt |-> NoDateTime]

----------------------------------------------------------------------------
(* The service plan and its cache *)

\* The decoded JSON documents.  hasResult tells {"result": {...}} from {}.
PlanNone == [tag |-> "None", hasResult |-> FALSE, channels |-> <<>>, channel_list |-> <<>>]
PlanEmpty == [tag |-> "dict", hasResult |-> FALSE, channels |-> <<>>, channel_list |-> <<>>]
Plan(chs, cl) == [tag |-> "dict", hasResult |-> TRUE, channels |-> chs, channel_list |-> cl]

\* The test "is not None" in place of the truth value.
TruthyNotNone(plan) == plan.tag = "dict"

\* Truth value of a service plan: None and {} are false.
Truthy(plan) == plan.tag = "dict" /\ plan.hasResult

\* Lines 17 and 33: the condition under which the plan is fetched.
NeedsFetchWhenFalsy(c) == ~Truthy(c)

NeedsFetch(c) == c.tag = "None"

\* _load_service_plan_cache: the cache after the call, given the server's answer.
load_service_plan_cache(c, r) ==
    IF NeedsFetch(c) THEN (IF r.ok THEN r.body ELSE PlanEmpty) ELSE c

\* The number of GETs the call makes.
LoadFetches(c) == IF NeedsFetch(c) THEN 1 ELSE 0

\* str(n) for a one-digit channel id.
Str(n) == DigitChars[n + 1]

\* The index of the entry of a dict with the given key, 0 when there is none.
KeyIndex(d, k) ==
    IF \E i \in 1..Len(d) : d[i].key = k
    THEN CHOOSE i \in 1..Len(d) : d[i].key = k
    ELSE 0

\* Lines 55-59: the number of the first entry of channel_list with the id.
RECURSIVE FirstMatch(_, _, _)
FirstMatch(channel_list, id, i) ==
    IF i > Len(channel_list) THEN None
    ELSE IF Str(channel_list[i].channel_id) = id THEN channel_list[i].number
    ELSE FirstMatch(channel_list, id, i + 1)

\* _get_channel_details, given the cache after its load.
get_channel_details(service_plan, channel_id) ==
    IF ~Truthy(service_plan) THEN [name |-> None, lcn |-> None]
    ELSE LET channels == service_plan.channels
             k == KeyIndex(channels, Str(channel_id))
         IN [name |-> IF k = 0 THEN None ELSE Some(channels[k].data.name),
             lcn |-> FirstMatch(service_plan.channel_list, Str(channel_id), 1)]

----------------------------------------------------------------------------
(* play_channel *)

\* Line 104, with float('inf') as None: does the candidate replace the best so far?
ReplacesBestOnTie(distance, min_distance) ==
    min_distance.none \/ distance <= min_distance.val

ReplacesBest(distance, min_distance) ==
    min_distance.none \/ distance < min_distance.val

\* Lines 101-106: the scan; best is an index into channels, 0 for None.
RECURSIVE BestMatch(_, _, _, _, _)
BestMatch(channels, channel_name, i, best, min_distance) ==
    IF i > Len(channels) THEN best
    ELSE LET name == channels[i].data.name
             distance == levenshtein_distance(Lower(channel_name), Lower(name))
         IN IF ReplacesBest(distance, min_distance)
            THEN BestMatch(channels, channel_name, i + 1, i, Some(distance))
            ELSE BestMatch(channels, channel_name, i + 1, best, min_distance)

NoReturn == [kind |-> "None"]

\* play_channel, given the cache after its load.
play_channel(service_plan, channel_name) ==
    IF ~Truthy(service_plan) THEN NoReturn
    ELSE IF service_plan.channels = <<>> THEN NoReturn
    ELSE LET best == BestMatch(service_plan.channels, channel_name, 1, 0, None)
         IN IF best = 0 THEN NoReturn
            ELSE [kind |-> "url", channel_id |-> service_plan.channels[best].data.id]

----------------------------------------------------------------------------
(* search_content *)

\* Truth value of an integer: 0 is false.
NonZero(n) == n # 0

\* Lines 164 and 172: the test on start_time.
StartGiven(start_time) == NonZero(start_time)

\* result_item with nothing but its "type"; an absent key is None.
BareResult(type) ==
    [type |-> type, title |-> None, id |-> None, url |-> None, description |-> None,
     original_title |-> None, channel_name |-> None, channel_number |-> None,
     broadcast_time |-> None, broadcast_end_time |-> None, duration |-> None]

Url(prefix, id) == Some([prefix |-> prefix, id |-> id])

\* Lines 152-175: the fields of a scheduled item, from its first diffusion.
DiffusionFields(r, diffusions, service_plan) ==
    IF diffusions = <<>> THEN r
    ELSE LET first_diffusion == diffusions[1]
             start_time == first_diffusion.start
             end_time == first_diffusion.end
             details == get_channel_details(service_plan, first_diffusion.channel_id)
         IN [r EXCEPT
               !.channel_name =
                   IF ~details.name.none /\ details.name.val # <<>> THEN details.name ELSE None,
               !.channel_number =
                   IF ~details.lcn.none /\ NonZero(details.lcn.val) THEN details.lcn ELSE None,
               !.broadcast_time =
                   IF StartGiven(start_time) THEN Some(StrfMDHM(FromTimestamp(start_time)))
                   ELSE None,
               !.broadcast_end_time =
                   IF NonZero(end_time) THEN Some(StrfMDHM(FromTimestamp(end_time))) ELSE None,
               !.duration =
                   IF NonZero(end_time) /\ StartGiven(start_time)
                   THEN Some((end_time - start_time) \div 60)
                   ELSE None]

\* Lines 128-175: one raw item to one result_item.
NormalizeItem(item, service_plan) ==
    LET r == BareResult(Some(item.type))
    IN CASE item.shape = "collection" ->
              [r EXCEPT !.title = Some(item.title), !.type = Some(item.inner_type),
                        !.id = Some(item.id), !.url = Url("search-collection", item.id)]
         [] item.shape = "replay_collection" ->
              [r EXCEPT !.title = Some(item.title), !.id = Some(item.id),
                        !.url = Url("search-replay_collection", item.id)]
         [] item.shape = "content" ->
              LET c == [r EXCEPT !.title = Some(item.title),
                                 !.description = Some(item.description),
                                 !.original_title = Some(item.original_title),
                                 !.id = Some(item.id)]
              IN IF item.display_as = "vod"
                 THEN [c EXCEPT !.url = Url("vod/contents", item.id)]
                 ELSE IF item.display_as = "diffusion"
                 THEN DiffusionFields(c, item.diffusions, service_plan)
                 ELSE c
         [] OTHER -> r

\* search_content: response is [ok, result]; a failed request returns None.
search_content(response, service_plan) ==
    IF ~response.ok THEN NoReturn
    ELSE [kind |-> "results",
          results |-> [i \in 1..Len(response.result) |->
                          NormalizeItem(response.result[i], service_plan)]]

----------------------------------------------------------------------------
(* _get_epg_by_datetime *)

EmptyMapping == [k \in {} |-> None]

\* d[k] = v on a dict held as a function.
Put(d, k, v) == [x \in (DOMAIN d) \cup {k} |-> IF x = k THEN v ELSE d[x]]

\* d.get(k)
Get(d, k) == IF k \in DOMAIN d THEN d[k] ELSE None

\* Lines 197-199: every entry of channel_list is written in turn.
RECURSIVE LcnMapping(_, _, _)
LcnMapping(channel_list, i, lcn_mapping) ==
    IF i > Len(channel_list) THEN lcn_mapping
    ELSE LcnMapping(channel_list, i + 1,
                    Put(lcn_mapping, Str(channel_list[i].channel_id), channel_list[i].number))

\* Line 201: timestamp.replace(minute=0, second=0, microsecond=0)
TopOfHour(dt) == [dt EXCEPT !.minute = 0, !.second = 0, !.microsecond = 0]

\* Line 214 with > in place of >=.
StillRunningStrict(program, timestamp) ==
    program.live.end > TimestampSeconds(timestamp)

\* Line 214: the test a program passes to be kept.
StillRunning(program, timestamp) == AtOrAfter(program.live.end, timestamp)

\* Line 214: the programs kept, in their order.
RECURSIVE KeptPrograms(_, _)
KeptPrograms(programs, timestamp) ==
    IF programs = <<>> THEN <<>>
    ELSE IF StillRunning(Head(programs), timestamp)
         THEN <<Head(programs)>> \o KeptPrograms(Tail(programs), timestamp)
         ELSE KeptPrograms(Tail(programs), timestamp)

\* Lines 221-225: a start or end formatted, None when it is missing or 0.
ProgramTime(program_data, t) ==
    IF ~program_data.none /\ NonZero(t) THEN Some(StrfHM(FromTimestamp(t))) ELSE None

\* Lines 213-236: the row of a channel that has a bucket entry.
GuideRow(channel_name, lcn, bucket, timestamp) ==
    LET programs == KeptPrograms(bucket, timestamp)
        current_program_data == IF Len(programs) >= 1 THEN Some(programs[1].live) ELSE None
        next_program_data == IF Len(programs) >= 2 THEN Some(programs[2].live) ELSE None
        title(d) == IF d.none THEN None ELSE Some(d.val.title)
        start(d) == IF d.none THEN None ELSE ProgramTime(d, d.val.start)
        end(d) == IF d.none THEN None ELSE ProgramTime(d, d.val.end)
    IN [lcn |-> lcn,
        channel |-> channel_name,
        current_program |-> title(current_program_data),
        current_program_start_time |-> start(current_program_data),
        current_program_end_time |-> end(current_program_data),
        next_program |-> title(next_program_data),
        next_program_start_time |-> start(next_program_data),
        next_program_end_time |-> end(next_program_data)]

\* Lines 208-236: the rows, in the iteration order of channels.
RECURSIVE GuideRows(_, _, _, _, _)
GuideRows(channels, lcn_mapping, epg_entries, timestamp, i) ==
    IF i > Len(channels) THEN <<>>
    ELSE LET channel_id == channels[i].key
             rest == GuideRows(channels, lcn_mapping, epg_entries, timestamp, i + 1)
         IN IF channel_id \in DOMAIN epg_entries
            THEN <<GuideRow(channels[i].data.name, Get(lcn_mapping, channel_id),
                            epg_entries[channel_id], timestamp)>> \o rest
            ELSE rest

\* Line 239: the key with the lcn alone.
SortKeyLcnOnly(row) == <<FALSE, row.lcn>>

\* Line 239: the sort key, (x.get("lcn") is None, x.get("lcn")).
SortKey(row) == <<row.lcn.none, row.lcn>>

\* Tuple comparison a < b: the first differing position decides, and there
\* False < True; equal tuples are not less.
KeyLess(a, b) ==
    IF a[1] # b[1] THEN b[1]
    ELSE IF a[2] = b[2] THEN FALSE
    ELSE a[2].val < b[2].val

\* The comparison raises TypeError when the deciding position holds a None.
KeyRaises(a, b) ==
    a[1] = b[1] /\ a[2] # b[2] /\ (a[2].none \/ b[2].none)

\* list.sort is stable: insertion after the last element that is not greater.
RECURSIVE Insert(_, _)
Insert(sorted, row) ==
    IF sorted = <<>> THEN <<row>>
    ELSE IF KeyLess(SortKey(row), SortKey(sorted[Len(sorted)]))
         THEN Insert(SubSeq(sorted, 1, Len(sorted) - 1), row) \o <<sorted[Len(sorted)]>>
         ELSE Append(sorted, row)

RECURSIVE SortRows(_, _, _)
SortRows(rows, i, sorted) ==
    IF i > Len(rows) THEN sorted ELSE SortRows(rows, i + 1, Insert(sorted, rows[i]))

SortFails(rows) ==
    \E i, j \in 1..Len(rows) : i # j /\ KeyRaises(SortKey(rows[i]), SortKey(rows[j]))

\* _get_epg_by_datetime, given the cache after its load and the guide server's answer:
\* what it returns or raises, and the buckets it requested.
get_epg_by_datetime(service_plan, timestamp, epg_response) ==
    IF ~Truthy(service_plan) THEN [ret |-> NoReturn, requested |-> <<>>]
    ELSE LET lcn_mapping == LcnMapping(service_plan.channel_list, 1, EmptyMapping)
             current_timestamp == TimestampSeconds(TopOfHour(timestamp))
             rows == GuideRows(service_plan.channels, lcn_mapping, epg_response.entries,
                               timestamp, 1)
         IN [requested |-> <<current_timestamp>>,
             ret |-> IF ~epg_response.ok THEN [kind |-> "raise", error |-> "HTTPError"]
                     ELSE IF SortFails(rows) THEN [kind |-> "raise", error |-> "TypeError"]
                     ELSE [kind |-> "rows", rows |-> SortRows(rows, 1, <<>>)]]

----------------------------------------------------------------------------
(* The inputs: what the servers answer and what the callers pass *)

\* Bounds.
MaxChannels == 3    \* channels of a service plan
MaxList == 2        \* entries of channel_list
MaxPrograms == 2    \* programs of a channel in a guide bucket
MaxTimeLen == 4     \* length of the time strings enumerated in full
MaxPartLen == 3     \* length of each half of the "date time" strings enumerated

\* Sequences over S of length at most n without a repeated element.
DistinctSeqs(S, n) ==
    {q \in SeqsUpTo(S, n) : \A i, j \in 1..Len(q) : i # j => q[i] # q[j]}

Channel(k, name) == [key |-> k, data |-> [id |-> k, name |-> name]]

ChannelIds == 1..MaxChannels

\* The channels dicts in which channel k is named "ch<k>": channels 1..n in
\* that order or in the reverse order.
ChannelName(k) == <<"c", "h", Str(k)>>
NamedChannels ==
    {[i \in 1..n |-> Channel(Str(i), ChannelName(i))] : n \in 0..MaxChannels}
    \cup {[i \in 1..n |-> Channel(Str(n + 1 - i), ChannelName(n + 1 - i))] : n \in 0..MaxChannels}

\* The channels dicts with names drawn from a pool.
NamePool == {<<>>, <<"a">>, <<"B">>, <<"a", "B">>, <<"b", "a">>}
PoolChannels ==
    {[i \in 1..Len(ns) |-> Channel(Str(i), ns[i])] : ns \in SeqsUpTo(NamePool, MaxChannels)}
TFChannels == <<Channel("1", <<"T", "F", "1">>), Channel("2", <<"T", "F", "2">>)>>

\* The numbers of channel_list: null or a channel number.
Numbers == {None, Some(1), Some(2)}
ListEntries == [channel_id : ChannelIds, number : Numbers]
ChannelLists == SeqsUpTo(ListEntries, MaxList)

\* channel_list numbering every channel once, channel k as k.
PlainList == [k \in 1..MaxChannels |-> [channel_id |-> k, number |-> Some(k)]]

Fetched(body) == [ok |-> TRUE, body |-> body]
FetchFailed == [ok |-> FALSE, body |-> PlanNone]

\* Instants of the evening of 2 January, as timestamps.
T2100 == TimestampSeconds(DateTime(1, 2, 21, 0, 0, 0))
T2130 == TimestampSeconds(DateTime(1, 2, 21, 30, 0, 0))
T2215 == TimestampSeconds(DateTime(1, 2, 22, 15, 0, 0))

Clocks == {DateTime(1, 2, 21, 0, 0, 0), DateTime(1, 2, 21, 30, 0, 250000)}

Program(title, start, end) == [live |-> [title |-> title, start |-> start, end |-> end]]
ProgramPool == {Program("a", 0, T2100), Program("b", T2100, T2130), Program("c", T2130, T2215)}

ProgramLists == DistinctSeqs(ProgramPool, MaxPrograms)
PoolInOrder == <<Program("a", 0, T2100), Program("b", T2100, T2130), Program("c", T2130, T2215)>>

\* The bucket in which each channel of ks shows the pool in time order.
FullBucket(ks) == [k \in ks |-> PoolInOrder]

ChannelKeys == {Str(k) : k \in ChannelIds}

\* The guide buckets: any set of channels has an entry; one of them shows any list
\* of programs, the others the pool in time order.
Buckets ==
    {FullBucket(ks) : ks \in SUBSET ChannelKeys}
    \cup UNION {{[FullBucket(ks) EXCEPT ![k] = ps] : k \in ks, ps \in ProgramLists} :
                  ks \in SUBSET ChannelKeys}

EpgOk(entries) == [ok |-> TRUE, entries |-> entries]
EpgFailed == [ok |-> FALSE, entries |-> EmptyMapping]

\* play_channel's queries.
QueryAlphabet == {"a", "b", "A"}
Queries == SeqsUpTo(QueryAlphabet, MaxLen) \cup {<<"t", "f", "1">>, <<"T", "f", "f", "1">>}

\* get_epg's arguments.
TimeAlphabet == {"1", "9", ":", "/", " ", "x"}
DateAlphabet == {"1", "9", "/"}
ClockAlphabet == {"1", "9", ":"}
SampleTimeStrings ==
    {<<"1", "4", ":", "3", "0">>,
     <<"0", "7", "/", "0", "1", " ", "1", "2", ":", "0", "0">>,
     <<"9", "9", ":", "9", "9">>,
     <<"n", "o", "t", "-", "a", "-", "t", "i", "m", "e">>,
     <<"2", "4", ":", "0", "0">>,
     <<"1", "2", ":", "6", "0">>,
     <<"2", "3", ":", "5", "9">>,
     <<"-", "1", ":", "3", "0">>,
     <<"+", "1", ":", "3", "0">>,
     <<"1", "2", ":", "3", "0", ":", "1", "5">>,
     <<"0", "4", "/", "3", "1", " ", "1", "0", ":", "0", "0">>,
     <<"0", "2", "/", "2", "9", " ", "1", "0", ":", "0", "0">>,
     <<"1", "3", "/", "0", "1", " ", "1", "0", ":", "0", "0">>,
     <<"1", "2", "/", "3", "1", " ", "2", "3", ":", "5", "9">>,
     <<"0", "7", "/", "0", "1", " ", " ", "1", "2", ":", "0", "0">>,
     <<"0", "7", "/", "0", "1", " ", "2", "5", ":", "0", "0">>,
     <<"0", "7", "-", "0", "1", " ", "1", "2", ":", "0", "0">>}
TimeStrings ==
    SeqsUpTo(TimeAlphabet, MaxTimeLen)
    \cup {d \o <<" ">> \o c : d \in SeqsUpTo(DateAlphabet, MaxPartLen),
                             c \in SeqsUpTo(ClockAlphabet, MaxPartLen)}
    \cup SampleTimeStrings

TimeInput(kind, n, str) == [kind |-> kind, int |-> n, str |-> str]
TimeInputs ==
    {TimeInput("none", 0, <<>>), TimeInput("other", 0, <<>>)}
    \cup {TimeInput("int", n, <<>>) : n \in {0, T2100, T2130 + 59}}
    \cup {TimeInput("str", 0, str) : str \in TimeStrings}

\* search_content's answers from the search server.
StartTimes == {0, 30, 150}
EndTimes == {30, 150, T2100}
Diffusion(channel_id, start, end) == [channel_id |-> channel_id, start |-> start, end |-> end]
RawItem(shape, display_as, diffusions) ==
    [shape |-> shape, type |-> "t", inner_type |-> "u", title |-> "title", id |-> 7,
     description |-> "d", original_title |-> "o", display_as |-> display_as,
     diffusions |-> diffusions]
ScheduledItems ==
    {RawItem("content", "diffusion", <<Diffusion(c, st, en)>>) :
        c \in ChannelIds \cup {9}, st \in StartTimes, en \in EndTimes}
OtherItems ==
    {RawItem("collection", "", <<>>), RawItem("replay_collection", "", <<>>),
     RawItem("content", "vod", <<>>), RawItem("content", "live", <<>>),
     RawItem("content", "diffusion", <<>>), RawItem("unknown", "", <<>>),
     RawItem("content", "diffusion", <<Diffusion(1, 30, 0)>>),
     RawItem("content", "diffusion", <<Diffusion(1, 30, 150), Diffusion(2, 0, T2100)>>)}
SearchResponses ==
    {[ok |-> FALSE, result |-> <<>>], [ok |-> TRUE, result |-> <<>>]}
    \cup {[ok |-> TRUE, result |-> <<i>>] : i \in ScheduledItems \cup OtherItems}
    \cup {[ok |-> TRUE, result |-> <<RawItem("collection", "", <<>>),
                                      RawItem("content", "diffusion", <<Diffusion(1, 0, 150)>>)>>]}

----------------------------------------------------------------------------
(* The state machine *)

Request(tool, arg) == [tool |-> tool, arg |-> arg]
Pending(tool) == {r \in requests : r.tool = tool}

\* The state when the interpreter starts to import the module.
Start(remotes, epgs, clocks, requestSets) ==
    /\ remote \in remotes
    /\ epg \in epgs
    /\ clock \in clocks
    /\ requests \in requestSets
    /\ cache = PlanNone
    /\ fetches = 0
    /\ pc = "import"
    /\ op = "none"
    /\ inp = <<>>
    /\ ret = NoReturn
    /\ at = None
    /\ epgReq = <<>>

\* Line 29: the call of _load_service_plan_cache made while the module is imported.
ModuleImport ==
    /\ pc = "import"
    /\ cache' = load_service_plan_cache(cache, remote)
    /\ fetches' = fetches + LoadFetches(cache)
    /\ pc' = "ready"
    /\ op' = "_load_service_plan_cache"
    /\ UNCHANGED <<remote, epg, clock, requests, inp, ret, at, epgReq>>

\* A direct call of levenshtein_distance.
LevenshteinDistance ==
    /\ pc = "ready"
    /\ \E r \in Pending("levenshtein_distance") :
          /\ op' = "levenshtein_distance"
          /\ inp' = r.arg
          /\ ret' = [kind |-> "int", int |-> levenshtein_distance(r.arg.s1, r.arg.s2)]
    /\ at' = None
    /\ epgReq' = <<>>
    /\ UNCHANGED <<remote, epg, clock, requests, pc, cache, fetches>>

\* A call of the tool play_channel.
PlayChannel ==
    /\ pc = "ready"
    /\ \E r \in Pending("play_channel") :
          LET service_plan == load_service_plan_cache(cache, remote)
          IN /\ cache' = service_plan
             /\ fetches' = fetches + LoadFetches(cache)
             /\ op' = "play_channel"
             /\ inp' = r.arg
             /\ ret' = play_channel(service_plan, r.arg)
    /\ at' = None
    /\ epgReq' = <<>>
    /\ UNCHANGED <<remote, epg, clock, requests, pc>>

\* Does search_content reach _get_channel_details (line 158) on this answer?
CallsChannelDetails(response) ==
    /\ response.ok
    /\ \E i \in 1..Len(response.result) :
          /\ response.result[i].shape = "content"
          /\ response.result[i].display_as = "diffusion"
          /\ response.result[i].diffusions # <<>>

\* A call of the tool search_content; the request carries the search server's answer.
SearchContent ==
    /\ pc = "ready"
    /\ \E r \in Pending("search_content") :
          LET loads == CallsChannelDetails(r.arg)
              service_plan == IF loads THEN load_service_plan_cache(cache, remote) ELSE cache
          IN /\ cache' = service_plan
             /\ fetches' = fetches + (IF loads THEN LoadFetches(cache) ELSE 0)
             /\ op' = "search_content"
             /\ inp' = r.arg
             /\ ret' = search_content(r.arg, service_plan)
    /\ at' = None
    /\ epgReq' = <<>>
    /\ UNCHANGED <<remote, epg, clock, requests, pc>>

\* A call of _get_epg_by_datetime(timestamp) made by the function fn on input x.
GuideCall(fn, x, timestamp) ==
    LET service_plan == load_service_plan_cache(cache, remote)
        done == get_epg_by_datetime(service_plan, timestamp, epg)
    IN /\ cache' = service_plan
       /\ fetches' = fetches + LoadFetches(cache)
       /\ op' = fn
       /\ inp' = x
       /\ ret' = done.ret
       /\ at' = Some(timestamp)
       /\ epgReq' = done.requested
       /\ UNCHANGED <<remote, epg, clock, requests, pc>>

\* A call of the tool get_epg.
GetEpg ==
    /\ pc = "ready"
    /\ \E r \in Pending("get_epg") :
          LET parsed == ParseTimeInput(r.arg, clock)
          IN IF parsed.err = ""
             THEN GuideCall("get_epg", r.arg, parsed.dt)
             ELSE /\ op' = "get_epg"
                  /\ inp' = r.arg
                  /\ ret' = [kind |-> "raise", error |-> parsed.err]
                  /\ at' = None
                  /\ epgReq' = <<>>
                  /\ UNCHANGED <<remote, epg, clock, requests, pc, cache, fetches>>

\* line 283: now().replace(hour=21, minute=30, second=0, microsecond=0)
EveningOf(now) == [now EXCEPT !.hour = 21, !.minute = 30, !.second = 0, !.microsecond = 0]

\* A call of the tool get_epg_live.
GetEpgLive ==
    /\ pc = "ready"
    /\ Pending("get_epg_live") # {}
    /\ GuideCall("get_epg_live", <<>>, clock)

\* A call of the tool get_epg_evening.
GetEpgEvening ==
    /\ pc = "ready"
    /\ Pending("get_epg_evening") # {}
    /\ GuideCall("get_epg_evening", <<>>, EveningOf(clock))

Next ==
    \/ ModuleImport
    \/ LevenshteinDistance
    \/ PlayChannel
    \/ SearchContent
    \/ GetEpg
    \/ GetEpgLive
    \/ GetEpgEvening

----------------------------------------------------------------------------
(* The requests *)

Kitten == <<"k", "i", "t", "t", "e", "n">>
Sitting == <<"s", "i", "t", "t", "i", "n", "g">>
LevRequests ==
    {Request("levenshtein_distance", [s1 |-> a, s2 |-> b]) :
        a \in SeqsUpTo(LevAlphabet, MaxLen), b \in SeqsUpTo(LevAlphabet, MaxLen)}
    \cup {Request("levenshtein_distance", [s1 |-> Kitten, s2 |-> Sitting]),
          Request("levenshtein_distance", [s1 |-> Sitting, s2 |-> Kitten])}
PlayRequests == {Request("play_channel", q) : q \in Queries}
SearchRequests == {Request("search_content", a) : a \in SearchResponses}
TimeRequests == {Request("get_epg", t) : t \in TimeInputs}
LiveRequest == Request("get_epg_live", <<>>)
EveningRequest == Request("get_epg_evening", <<>>)

\* One call of each function.
OneOfEach ==
    {Request("levenshtein_distance", [s1 |-> Kitten, s2 |-> Sitting]),
     Request("play_channel", <<"t", "f", "1">>),
     Request("search_content",
             [ok |-> TRUE, result |-> <<RawItem("content", "diffusion", <<Diffusion(1, 30, 150)>>)>>]),
     Request("get_epg", TimeInput("none", 0, <<>>)),
     Request("get_epg", TimeInput("int", T2130 + 59, <<>>)),
     Request("get_epg", TimeInput("str", 0, <<"2", "1", ":", "0", "0">>)),
     LiveRequest, EveningRequest}

Singletons(S) == {{x} : x \in S}

----------------------------------------------------------------------------
(* The specifications *)

SamplePlans ==
    {Plan(<<>>, <<>>), Plan(TFChannels, PlainList),
     Plan(<<Channel("2", ChannelName(2)), Channel("1", ChannelName(1))>>,
          <<[channel_id |-> 1, number |-> Some(2)], [channel_id |-> 2, number |-> None]>>)}
Remotes == {FetchFailed, Fetched(PlanEmpty)} \cup {Fetched(b) : b \in SamplePlans}

\* The whole server on a few service plans: any sequence of calls, searches in full.
Init ==
    Start(Remotes, {EpgOk(FullBucket(ChannelKeys)), EpgFailed}, Clocks, {OneOfEach \cup SearchRequests})

Spec == Init /\ [][Next]_vars

\* levenshtein_distance alone, on every pair of strings.
InitLev ==
    Start({Fetched(Plan(TFChannels, PlainList))}, {EpgOk(FullBucket(ChannelKeys))},
          {DateTime(1, 2, 21, 0, 0, 0)}, Singletons(LevRequests))
NextLev == ModuleImport \/ LevenshteinDistance
SpecLev == InitLev /\ [][NextLev]_vars

\* play_channel on every service plan with pooled names.
InitPlay ==
    Start({FetchFailed, Fetched(PlanEmpty), Fetched(Plan(TFChannels, PlainList))}
              \cup {Fetched(Plan(chs, <<>>)) : chs \in PoolChannels},
          {EpgOk(FullBucket(ChannelKeys))}, {DateTime(1, 2, 21, 0, 0, 0)},
          Singletons(PlayRequests))
NextPlay == ModuleImport \/ PlayChannel
SpecPlay == InitPlay /\ [][NextPlay]_vars

\* get_epg on every time input.
InitTime ==
    Start({FetchFailed, Fetched(Plan(TFChannels, PlainList))}, {EpgOk(FullBucket(ChannelKeys))},
          Clocks, Singletons(TimeRequests))
NextTime == ModuleImport \/ GetEpg
SpecTime == InitTime /\ [][NextTime]_vars

GuideRequests ==
    {LiveRequest, EveningRequest, Request("get_epg", TimeInput("none", 0, <<>>)),
     Request("get_epg", TimeInput("int", T2130 + 59, <<>>))}
NextGuide == ModuleImport \/ GetEpg \/ GetEpgLive \/ GetEpgEvening

\* The guide on every bucket.
InitPrograms ==
    Start({Fetched(Plan(chs, PlainList)) : chs \in NamedChannels},
          {EpgFailed} \cup {EpgOk(b) : b \in Buckets}, Clocks, Singletons(GuideRequests))
SpecPrograms == InitPrograms /\ [][NextGuide]_vars

LookupRequests ==
    {LiveRequest, EveningRequest}
    \cup {Request("search_content",
                  [ok |-> TRUE, result |-> <<RawItem("content", "diffusion", <<Diffusion(c, 30, 150)>>)>>]) :
             c \in ChannelIds}
NextLookup == ModuleImport \/ SearchContent \/ GetEpgLive \/ GetEpgEvening

\* The guide and the search on every channel_list.
InitNumbers ==
    Start({Fetched(Plan(chs, cl)) : chs \in NamedChannels, cl \in ChannelLists},
          {EpgOk(FullBucket(ChannelKeys))}, {DateTime(1, 2, 21, 0, 0, 0)},
          Singletons(LookupRequests))
SpecNumbers == InitNumbers /\ [][NextLookup]_vars

----------------------------------------------------------------------------
(* Properties *)

\* The Levenshtein edit distance by its defining recurrence: unit-cost insert,
\* delete and substitute.
RECURSIVE EditDistance(_, _)
EditDistance(a, b) ==
    IF a = <<>> THEN Len(b)
    ELSE IF b = <<>> THEN Len(a)
    ELSE Min3(EditDistance(Tail(a), b) + 1,
              EditDistance(a, Tail(b)) + 1,
              EditDistance(Tail(a), Tail(b)) + (IF Head(a) = Head(b) THEN 0 ELSE 1))

IsGuideCall == op \in {"get_epg", "get_epg_live", "get_epg_evening"} /\ ~at.none

\* The rows of the last guide call that show the channel.
RowsOf(channel) == {j \in 1..Len(ret.rows) : ret.rows[j].channel = channel.data.name}

\* C1: the guide returns exactly one row per channel of the service plan, a
\* channel without a bucket entry or with only ended programs included.
C1_OneRowPerChannel ==
    (IsGuideCall /\ ret.kind = "rows") =>
        /\ Len(ret.rows) = Len(cache.channels)
        /\ \A i \in 1..Len(cache.channels) : Cardinality(RowsOf(cache.channels[i])) = 1

\* The number of the first entry of channel_list whose channel_id is the key.
FirstNumber(channel_list, key) ==
    LET matches == {i \in 1..Len(channel_list) : Str(channel_list[i].channel_id) = key}
    IN IF matches = {} THEN None
       ELSE channel_list[CHOOSE i \in matches : \A j \in matches : i <= j].number

IsScheduled(item) ==
    item.shape = "content" /\ item.display_as = "diffusion" /\ item.diffusions # <<>>

\* C2: the number reported for a channel is that of the first entry of
\* channel_list with its id, in the lcn of a guide row and in the channel_number
\* of a search result.
C2_FirstNumberWins ==
    /\ (IsGuideCall /\ ret.kind = "rows") =>
          \A i \in 1..Len(cache.channels) : \A j \in RowsOf(cache.channels[i]) :
              ret.rows[j].lcn = FirstNumber(cache.channel_list, cache.channels[i].key)
    /\ (op = "search_content" /\ ret.kind = "results") =>
          \A i \in 1..Len(inp.result) :
              IsScheduled(inp.result[i]) =>
                  ret.results[i].channel_number =
                      FirstNumber(cache.channel_list, Str(inp.result[i].diffusions[1].channel_id))

\* C3: in the rows returned, a row without lcn comes after every row with
\* one, the rows with one ascend by lcn, and the sort never raises.
C3_SortedByLcn ==
    IsGuideCall =>
        /\ ret.kind = "raise" => ret.error # "TypeError"
        /\ ret.kind = "rows" =>
              \A i, j \in 1..Len(ret.rows) :
                  i < j =>
                      /\ ret.rows[i].lcn.none => ret.rows[j].lcn.none
                      /\ (~ret.rows[i].lcn.none /\ ~ret.rows[j].lcn.none) =>
                            ret.rows[i].lcn.val <= ret.rows[j].lcn.val

\* Three channels of which the last alone has a number: its row is moved to the front.
C3_Witness ==
    /\ IsGuideCall
    /\ ret.kind = "rows"
    /\ Len(ret.rows) = 3
    /\ Len(cache.channels) = 3
    /\ ~ret.rows[1].lcn.none
    /\ ret.rows[2].lcn.none
    /\ ret.rows[3].lcn.none
    /\ ret.rows[1].channel = cache.channels[3].data.name

\* The distance of the lowercased query to the lowercased name of channel i.
QueryDistance(i) == EditDistance(Lower(inp), Lower(cache.channels[i].data.name))

\* C4: play_channel returns the URL of the first channel, in iteration order,
\* at the minimum edit distance from the query, and None on an empty catalog.
C4_ClosestChannel ==
    op = "play_channel" =>
        IF cache.channels = <<>> THEN ret = NoReturn
        ELSE /\ ret.kind = "url"
             /\ \E i \in 1..Len(cache.channels) :
                   /\ ret.channel_id = cache.channels[i].data.id
                   /\ \A j \in 1..Len(cache.channels) : QueryDistance(i) <= QueryDistance(j)
                   /\ \A j \in 1..(i - 1) : QueryDistance(j) > QueryDistance(i)

\* Two channels of different names tie at the minimum and the first is returned.
C4_Witness ==
    /\ op = "play_channel"
    /\ ret.kind = "url"
    /\ Len(cache.channels) >= 2
    /\ cache.channels[1].data.name # cache.channels[2].data.name
    /\ QueryDistance(1) = QueryDistance(2)
    /\ \A j \in 1..Len(cache.channels) : QueryDistance(1) <= QueryDistance(j)
    /\ ret.channel_id = cache.channels[1].data.id

\* C5: levenshtein_distance is the edit distance; it is symmetric, 0 on equal
\* strings and len(a) against the empty string.
C5_EditDistance ==
    op = "levenshtein_distance" =>
        /\ ret.int = EditDistance(inp.s1, inp.s2)
        /\ ret.int = levenshtein_distance(inp.s2, inp.s1)
        /\ inp.s1 = inp.s2 => ret.int = 0
        /\ inp.s2 = <<>> => ret.int = Len(inp.s1)

\* distance("kitten", "sitting") == 3
C5_Witness ==
    /\ op = "levenshtein_distance"
    /\ inp.s1 = Kitten
    /\ inp.s2 = Sitting
    /\ ret.int = 3

\* C6: a scheduled item whose first diffusion has start <= end carries the
\* duration floor((end - start) / 60) minutes, start = 0 included.
C6_DurationMinutes ==
    (op = "search_content" /\ ret.kind = "results") =>
        \A i \in 1..Len(inp.result) :
            (IsScheduled(inp.result[i])
                /\ inp.result[i].diffusions[1].start <= inp.result[i].diffusions[1].end) =>
                ret.results[i].duration =
                    Some((inp.result[i].diffusions[1].end - inp.result[i].diffusions[1].start) \div 60)

\* The positions of the character c in s.
Positions(s, c) == {k \in 1..Len(s) : s[k] = c}

\* The pairs <<a, b>> that s reads as: an integer, the separator once, an integer.
ReadsAs(s, sep) ==
    {<<ParseInt(SubSeq(s, 1, k - 1)).val, ParseInt(SubSeq(s, k + 1, Len(s))).val>> :
        k \in {k \in Positions(s, sep) :
                 /\ Positions(s, sep) = {k}
                 /\ ParseInt(SubSeq(s, 1, k - 1)).ok
                 /\ ParseInt(SubSeq(s, k + 1, Len(s))).ok}}

\* The instants s denotes under the pattern HH:MM, on the day of now.
AsHHMM(s, now) ==
    {DateTime(now.month, now.day, t[1], t[2], 0, 0) :
        t \in {t \in ReadsAs(s, ":") : t[1] \in 0..23 /\ t[2] \in 0..59}}

\* The instants s denotes under the pattern MM/DD HH:MM.
AsMMDDHHMM(s) ==
    UNION {{DateTime(d[1], d[2], t[1], t[2], 0, 0) :
               d \in {d \in ReadsAs(SubSeq(s, 1, k - 1), "/") :
                        d[1] \in 1..12 /\ d[2] >= 1 /\ d[2] <= DaysInMonth[d[1]]},
               t \in {t \in ReadsAs(SubSeq(s, k + 1, Len(s)), ":") :
                        t[1] \in 0..23 /\ t[2] \in 0..59}} :
           k \in {k \in Positions(s, " ") : Positions(s, " ") = {k}}}

TimeError(kind) == [kind |-> "raise", error |-> kind]

C8_EmptyCatalogTolerated ==
    (pc = "ready" /\ cache.channels = <<>>) =>
        /\ op = "play_channel" => ret = NoReturn
        /\ (op = "search_content" /\ ret.kind = "results") =>
              \A i \in 1..Len(ret.results) :
                  ret.results[i].channel_name.none /\ ret.results[i].channel_number.none
        /\ (IsGuideCall /\ ~cache.hasResult) => (ret = NoReturn /\ epgReq = <<>>)
        /\ (IsGuideCall /\ cache.hasResult /\ epg.ok) => ret = [kind |-> "rows", rows |-> <<>>]

\* The fetch failed, the guide server is down too, and get_epg_live returns None.
C8_Witness ==
    /\ remote = FetchFailed
    /\ ~epg.ok
    /\ op = "get_epg_live"
    /\ cache = PlanEmpty
    /\ ret = NoReturn

\* Is the program still running at the instant: end >= instant?
NotEnded(program, instant) ==
    \/ program.live.end > TimestampSeconds(instant)
    \/ program.live.end = TimestampSeconds(instant) /\ instant.microsecond = 0

\* The title of the n-th program of the list, in delivered order, that has not ended.
NthRunning(programs, instant, n) ==
    LET running == {k \in 1..Len(programs) : NotEnded(programs[k], instant)}
        nth == {k \in running : Cardinality({m \in running : m < k}) = n - 1}
    IN IF nth = {} THEN None ELSE Some(programs[CHOOSE k \in nth : TRUE].live.title)

\* C9: for a channel with a bucket entry the current program is the first
\* program, in delivered order, with end >= instant and the next program the
\* second one, None when there is none.
C9_CurrentAndNext ==
    (IsGuideCall /\ ret.kind = "rows") =>
        \A i \in 1..Len(cache.channels) :
            cache.channels[i].key \in DOMAIN epg.entries =>
                /\ RowsOf(cache.channels[i]) # {}
                /\ \A j \in RowsOf(cache.channels[i]) :
                      /\ ret.rows[j].current_program =
                            NthRunning(epg.entries[cache.channels[i].key], at.val, 1)
                      /\ ret.rows[j].next_program =
                            NthRunning(epg.entries[cache.channels[i].key], at.val, 2)

\* At 21:30 sharp a channel showing a (ended 21:00) then b (ending 21:30) has b
\* as its current program and no next one.
C9_Witness ==
    /\ op = "get_epg_evening"
    /\ ret.kind = "rows"
    /\ Len(ret.rows) >= 1
    /\ "1" \in DOMAIN epg.entries
    /\ epg.entries["1"] = <<Program("a", 0, T2100), Program("b", T2100, T2130)>>
    /\ \E j \in 1..Len(ret.rows) :
          /\ ret.rows[j].channel = ChannelName(1)
          /\ ret.rows[j].current_program = Some("b")
          /\ ret.rows[j].next_program = None

\* C10: once the cache is populated, no call changes it or fetches the
\* service plan again.
C10_FetchedOnce ==
    [][cache.tag # "None" => (cache' = cache /\ fetches' = fetches)]_vars

\* After a failed fetch a tool has run; the plan was fetched once.
C10_Witness ==
    /\ remote = FetchFailed
    /\ op = "play_channel"
    /\ cache = PlanEmpty
    /\ fetches = 1

====
